---- MODULE Spec2Model ----
(***************************************************************************)
(* Model of transcode_and_move_audio_files.py: the transcode dispatcher,   *)
(* the relocation engine, the directory / single-file coordinators and the *)
(* end-of-run statistics, over a small file system.                        *)
(*                                                                         *)
(* A Python str is modelled as a sequence of lexemes: the path separator,  *)
(* the extension separator, single characters of an extension, and whole   *)
(* directory names or file stems.  "/music/track.WAV" is                   *)
(* <<"/", "music", "/", "track", ".", "W", "A", "V">>.                   *)
(***************************************************************************)
EXTENDS Integers, Sequences, FiniteSets, TLC

\* ------------------------------------------------------------------------
\* Bounds of the model
\* ------------------------------------------------------------------------
\* Files lie in the source root and in the directory MaxDepth levels below it.
MaxDepth == 1
\* Largest number of files in the initial source tree.
MaxFiles == 2
\* Largest number of eligible files found by a counting pass, where only the
\* counters and the progress lines are followed.
MaxEligible == 50
\* Longest elapsed time, in whole seconds, given to the time summary.
MaxSeconds == 7300

\* ------------------------------------------------------------------------
\* Python string and os.path primitives (posixpath)
\* ------------------------------------------------------------------------
SEP == "/"
EXTSEP == "."
\* Python's None, kept apart from every str (the empty str is <<>>).
None == <<"None">>
\* The operation strings "encode" and "decode"
OpEncode == <<"encode">>
OpDecode == <<"decode">>
\* A local variable that was never assigned
Unbound == <<"Unbound">>

\* str.find: the lowest index where sub occurs in s, 0 when it does not.
Find(s, sub) ==
    LET hits == {i \in 1..(Len(s) - Len(sub) + 1) : SubSeq(s, i, i + Len(sub) - 1) = sub}
    IN IF hits = {} THEN 0 ELSE CHOOSE i \in hits : \A j \in hits : i <= j

\* str.rfind of a single lexeme: the highest index holding c, 0 when none.
RFind(s, c) ==
    LET hits == {i \in 1..Len(s) : s[i] = c}
    IN IF hits = {} THEN 0 ELSE CHOOSE i \in hits : \A j \in hits : i >= j

\* s.partition(sep)[2]
PartitionTail(s, sep) ==
    LET i == Find(s, sep)
    IN IF i = 0 THEN <<>> ELSE SubSeq(s, i + Len(sep), Len(s))

\* s.rpartition(c)[2] for a single-lexeme separator c
RPartitionTail(s, c) ==
    LET i == RFind(s, c)
    IN IF i = 0 THEN s ELSE SubSeq(s, i + 1, Len(s))

\* x in s, for a str s: substring containment
InStr(x, s) == x = <<>> \/ Find(s, x) # 0

\* x in t, for a tuple t of str: membership
InTuple(x, t) == \E i \in 1..Len(t) : t[i] = x

LowerChar(c) ==
    CASE c = "W" -> "w"
      [] c = "A" -> "a"
      [] c = "V" -> "v"
      [] OTHER -> c

\* str.lower
Lower(s) == [i \in 1..Len(s) |-> LowerChar(s[i])]

\* os.path.basename
basename(p) == SubSeq(p, RFind(p, SEP) + 1, Len(p))

\* rstrip of the separator
RECURSIVE RStripSep(_)
RStripSep(p) ==
    IF p # <<>> /\ p[Len(p)] = SEP THEN RStripSep(SubSeq(p, 1, Len(p) - 1)) ELSE p

\* os.path.dirname
dirname(p) ==
    LET head == SubSeq(p, 1, RFind(p, SEP))
    IN IF head # <<>> /\ RStripSep(head) # <<>> THEN RStripSep(head) ELSE head

\* os.path.join of two parts
join(a, b) ==
    IF b # <<>> /\ b[1] = SEP THEN b
    ELSE IF a = <<>> \/ a[Len(a)] = SEP THEN a \o b
    ELSE a \o <<SEP>> \o b

\* os.path.join of three parts
join3(a, b, c) == join(join(a, b), c)

\* os.path.splitext: the extension starts at the last EXTSEP of the last
\* component, unless only EXTSEPs precede it there.
splitext(p) ==
    LET sepIndex == RFind(p, SEP)
        dotIndex == RFind(p, EXTSEP)
    IN IF dotIndex > sepIndex
          /\ \E k \in (sepIndex + 1)..(dotIndex - 1) : p[k] # EXTSEP
       THEN <<SubSeq(p, 1, dotIndex - 1), SubSeq(p, dotIndex, Len(p))>>
       ELSE <<p, <<>> >>

\* The path the operating system resolves: repeated and trailing separators
\* do not matter.
RECURSIVE CollapseSep(_)
CollapseSep(p) ==
    IF Len(p) <= 1 THEN p
    ELSE IF p[1] = SEP /\ p[2] = SEP THEN CollapseSep(Tail(p))
    ELSE <<p[1]>> \o CollapseSep(Tail(p))
NormPath(p) ==
    LET c == CollapseSep(p)
    IN IF Len(c) > 1 /\ c[Len(c)] = SEP THEN SubSeq(c, 1, Len(c) - 1) ELSE c

split_root_extension(source_path) ==
    LET se == splitext(source_path)
    IN <<se[1], Lower(RPartitionTail(se[2], EXTSEP))>>

\* ------------------------------------------------------------------------
\* FormatRegistry
\* ------------------------------------------------------------------------
opus == <<"o", "p", "u", "s">>
flac == <<"f", "l", "a", "c">>
wav == <<"w", "a", "v">>
aiff == <<"a", "i", "f", "f">>
oga == <<"o", "g", "a">>
pcm == <<"p", "c", "m">>
rf64 == <<"r", "f", "6", "4">>
w64 == <<"w", "6", "4">>

\* A Python tuple of str, and a Python str, as the right operand of "in"
PyTuple(t) == [kind |-> "tuple", val |-> t]
PyStr(s) == [kind |-> "str", val |-> s]

\* The Python expression  x in c
PyIn(x, c) == IF c.kind = "tuple" THEN InTuple(x, c.val) ELSE InStr(x, c.val)

valid_encode_source_for_opus == PyTuple(<<wav, aiff, flac, oga, pcm>>)
valid_decode_source_for_opus == PyStr(opus)
valid_encode_source_for_flac == PyTuple(<<wav, aiff, rf64, w64>>)
valid_decode_source_for_flac == PyStr(flac)

options_encode_opus ==
    << <<"--music">>, <<"--bitrate">>, <<"160">>, <<"--vbr">>, <<"--framesize">>,
       <<"20">>, <<"--comp">>, <<"10">> >>
options_decode_opus == <<>>
options_encode_flac ==
    << <<"--keep-foreign-metadata">>, <<"--replay-gain">>, <<"--mid-side">>,
       <<"--best">>, <<"--verify">>, <<"--output-name">> >>
options_decode_flac == << <<"--decode">>, <<"--output-name">> >>

Formats == {opus, flac}

\* dict_valid_source of the operation
dict_valid_source_get(operation_transcode) ==
    IF operation_transcode = OpEncode
    THEN [f \in Formats |-> IF f = opus THEN valid_encode_source_for_opus
                                        ELSE valid_encode_source_for_flac]
    ELSE [f \in Formats |-> IF f = opus THEN valid_decode_source_for_opus
                                        ELSE valid_decode_source_for_flac]

\* A faulty variant of dict_valid_target_get: decoding gives the format itself
dict_valid_target_same(operation_transcode) == [f \in Formats |-> f]

\* dict_valid_target of the operation
dict_valid_target_get(operation_transcode) ==
    IF operation_transcode = OpEncode
    THEN [f \in Formats |-> f]
    ELSE [f \in Formats |-> wav]

\* dict_transcode_tool of the platform and the operation: format -> <<tool, options>>
dict_transcode_tool_get(system, operation_transcode) ==
    IF system = "Windows"
    THEN IF operation_transcode = OpEncode
         THEN [f \in Formats |-> IF f = opus THEN << <<"opusenc.exe">>, options_encode_opus >>
                                             ELSE << <<"flac.exe">>, options_encode_flac >>]
         ELSE [f \in Formats |-> IF f = opus THEN << <<"opusdec.exe">>, options_decode_opus >>
                                             ELSE << <<"flac.exe">>, options_decode_flac >>]
    ELSE IF operation_transcode = OpEncode
         THEN [f \in Formats |-> IF f = opus THEN << <<"/usr/bin/opusenc">>, options_encode_opus >>
                                             ELSE << <<"/usr/bin/flac">>, options_encode_flac >>]
         ELSE [f \in Formats |-> IF f = opus THEN << <<"/usr/bin/opusdec">>, options_decode_opus >>
                                             ELSE << <<"/usr/bin/flac">>, options_decode_flac >>]

dict_transcode_tool_platform_get(system, operation_transcode) ==
    [tool |-> dict_transcode_tool_get(system, operation_transcode),
     valid_source |-> dict_valid_source_get(operation_transcode),
     valid_target |-> dict_valid_target_get(operation_transcode)]

\* main_and_relevant_files_for_audio_get
main_and_relevant_files_for_audio_get(extension_target) ==
    << extension_target, <<"m", "p", "c">>, <<"j", "p", "g">>, <<"j", "p", "e", "g">>,
       <<"p", "n", "g">>, <<"p", "l", "s">>, <<"r", "t", "f">>, <<"t", "x", "t">>,
       <<"a", "c", "c", "u", "r", "i", "p">> >>

is_supported_platform(system) == system = "Windows" \/ system = "Linux"

\* ------------------------------------------------------------------------
\* The file system: files maps a resolved file path to its content, dirs is
\* the set of resolved directory paths.
\* ------------------------------------------------------------------------
\* A path with a trailing separator resolves to a directory only.
exists(fl, ds, p) ==
    \/ NormPath(p) \in ds
    \/ (NormPath(p) \in DOMAIN fl /\ p[Len(p)] # SEP)
isdir(ds, p) == NormPath(p) \in ds
isfile(fl, p) == NormPath(p) \in DOMAIN fl /\ p[Len(p)] # SEP

\* os.path.getsize, in units
getsize(fl, p) == IF fl[NormPath(p)] = "source" THEN 2 ELSE 1

\* The directory and all its ancestors (pathlib mkdir with parents)
RECURSIVE WithParents(_)
WithParents(d) == IF Len(d) <= 1 THEN {d} ELSE {d} \cup WithParents(dirname(d))

\* A regular file has the name of the directory or of one of its ancestors
blocked(fl, d) == \E q \in WithParents(NormPath(d)) : q \in DOMAIN fl

\* Writing content c at path p; removing the file at p
WriteFile(fl, p, c) ==
    [q \in DOMAIN fl \cup {NormPath(p)} |-> IF q = NormPath(p) THEN c ELSE fl[q]]
RemoveFile(fl, p) == [q \in DOMAIN fl \ {NormPath(p)} |-> fl[q]]

\* Directories at or below top, and the files directly in directory d
DirsUnder(ds, top) ==
    {d \in ds : Len(d) >= Len(NormPath(top))
                /\ SubSeq(d, 1, Len(NormPath(top))) = NormPath(top)}
FilesIn(fl, d) == {f \in DOMAIN fl : dirname(f) = d}

\* os.walk(top): the (dirpath, filename) pairs it yields; dirpath is top for
\* the top directory and os.path.join(top, relative path) below it.
walk(fl, ds, top) ==
    {[dir |-> IF d = NormPath(top) THEN top
              ELSE join(top, SubSeq(d, Len(NormPath(top)) + 2, Len(d))),
      file |-> basename(f)] : <<d, f>> \in
          {df \in DirsUnder(ds, top) \X DOMAIN fl : dirname(df[2]) = df[1]}}

\* os.walk is top-down: the items that may come next are those of the
\* shallowest directory not yet finished.
NextItems(items) == {x \in items : \A y \in items : Len(x.dir) <= Len(y.dir)}

\* ------------------------------------------------------------------------
\* Command lines and initial file systems considered
\* ------------------------------------------------------------------------
SrcRoot == <<SEP, "music">>
DstRoot == <<SEP, "mnt", SEP, "out">>
DirNames == <<"Album", "CD1", "Disc", "Side">>

\* The source directory k levels below the source root
RECURSIVE SrcDir(_)
SrcDir(k) == IF k = 0 THEN SrcRoot ELSE SrcDir(k - 1) \o <<SEP, DirNames[k]>>

\* File names met directly under the source root, and below it
FileNames ==
    { <<"track", EXTSEP, "W", "A", "V">>, <<"track", EXTSEP, "a", "i", "f", "f">>,
      <<"track", EXTSEP, "f", "l", "a", "c">>, <<"cover", EXTSEP, "j", "p", "g">>,
      <<"notes">> }
DeepNames == { <<"track", EXTSEP, "f", "l", "a", "c">>, <<"cover", EXTSEP, "j", "p", "g">> }

Candidates ==
    {SrcDir(k) \o <<SEP>> \o n : <<k, n>> \in
        {x \in {0, MaxDepth} \X FileNames : x[1] = 0 \/ x[2] \in DeepNames}}
Trees == {t \in SUBSET Candidates : Cardinality(t) <= MaxFiles}

\* The same relative path below the destination head directory
Mirror(f) == DstRoot \o <<SEP>> \o SubSeq(f, 2, Len(f))
\* The same file name directly in the destination root
Flat(f) == DstRoot \o <<SEP>> \o basename(f)

NoSuchSource == <<SEP, "nosuch">>

\* The parsed options: at most one of encode/decode/move (argparse group)
Modes ==
    {[encode_to |-> e, decode_from |-> d, move_format |-> m, percentage |-> p] :
        <<e, d, m, p>> \in
        {x \in (Formats \cup {None}) \X (Formats \cup {None}) \X (Formats \cup {None}) \X BOOLEAN :
            Cardinality({i \in 1..3 : x[i] # None}) <= 1}}

\* Destinations given with a source: none, the destination root, or the
\* source directory itself
DestsFor(src) ==
    {None, DstRoot} \cup (IF src \in {SrcRoot, SrcRoot \o <<SEP>>} THEN {src} ELSE {dirname(src)})

\* One run: the platform, the parsed command line (cmd_line_parse), whether
\* the transcode tool is installed, and the file system the run starts on
\* (tree: the source files; dest_pre: the destination root is absent; or
\* it is there and holds a file for every source file, under the same
\* relative path and directly in it; or a regular file has the name of the
\* head directory; or the head directory is there and holds one empty
\* directory left by an earlier run).
Config(sys, src, dst, mode, tool, tree, pre) ==
    [system |-> sys, source |-> src, dest |-> dst, encode_to |-> mode.encode_to,
     decode_from |-> mode.decode_from, move_format |-> mode.move_format,
     percentage |-> mode.percentage, tool_present |-> tool, tree |-> tree,
     dest_pre |-> pre]

\* Option sets main goes on with: one of the three options, and no
\* percentage with the move option
RunModes ==
    {m \in Modes : /\ \E o \in {m.encode_to, m.decode_from, m.move_format} : o # None
                   /\ ~(m.move_format # None /\ m.percentage)}

\* Runs that stop in main: unsupported platform, missing source, no option
\* or a refused combination of options
EarlyConfigs ==
    {Config(sys, src, None, mode, TRUE, {}, "absent") :
        <<sys, src, mode>> \in
        {x \in {"Linux", "Darwin"} \X {SrcRoot, NoSuchSource} \X Modes :
            x[1] = "Darwin" \/ x[2] = NoSuchSource \/ x[3] \notin RunModes}}

\* The path of the head directory of a run with a destination
HeadPath(c) ==
    IF c.source \in c.tree THEN c.dest ELSE c.dest \o <<SEP>> \o basename(c.source)

\* An empty directory an earlier run left in the head directory
StaleDir(c) == HeadPath(c) \o <<SEP, "Old">>

\* The file system a run starts on
InitDirs(c) ==
    {<<SEP>>, SrcRoot, dirname(DstRoot)}
    \cup UNION {WithParents(dirname(f)) : f \in c.tree}
    \cup (IF c.dest_pre = "collide"
          THEN {DstRoot} \cup UNION {WithParents(dirname(Mirror(f))) : f \in c.tree}
          ELSE {})
    \cup (IF c.dest_pre = "headfile" THEN WithParents(dirname(HeadPath(c))) ELSE {})
    \cup (IF c.dest_pre = "stale" THEN WithParents(StaleDir(c)) ELSE {})
InitFiles(c) ==
    LET pre == IF c.dest_pre = "collide"
               THEN {Mirror(f) : f \in c.tree} \cup {Flat(f) : f \in c.tree}
               ELSE IF c.dest_pre = "headfile" THEN {HeadPath(c)} ELSE {}
    IN [f \in c.tree \cup pre |-> IF f \in c.tree THEN "source" ELSE "old"]

\* The fixed remediation hint of a failed transcode
Hint ==
    "If the source is in wav format, transcode to flac. Else, if the source is in flac, transcode to wav, and then back to flac. This is most likely an error due to an incompatible PCM format, or due to the OS character set encoding."

\* ------------------------------------------------------------------------
\* State
\* ------------------------------------------------------------------------
VARIABLES
    cfg,                \* the run's command line and platform
    files, dirs,        \* the file system
    pc,                 \* position of the single thread of control
    root_source, dir_destination, dir_destination_original,
    target, transcode, exit_code,   \* locals of main
    head,               \* process_dir's own dir_destination (the head directory)
    pf,                 \* process_file's locals root_source and transcoded_file
    todo,               \* items the current os.walk has still to yield
    tsa,                \* function attributes of transcode_source_audio
    mcf,                \* function attributes of move_or_copy_file
    total_time_ns_relocate,         \* build_target_and_operate's attribute
    dict_files_failed,  \* the failure ledger of main
    proc_status,        \* exit status of the interpreter, -1 while running
    tool_runs,          \* history: the external tool invocations
    attempts,           \* history: shutil.move / shutil.copy2 calls made
    last,               \* history: what the last component call did
    calls,              \* history: number of dispatcher and engine calls
    cleanups,           \* history: directories removed by each cleanup pass
    refused,            \* history: head directories the system refused to make
    reports,            \* history: progress lines printed
    summary             \* history: what statistic_print reported

vars == <<cfg, files, dirs, pc, root_source, dir_destination, dir_destination_original,
          target, transcode, exit_code, head, pf, todo, tsa, mcf, total_time_ns_relocate,
          dict_files_failed, proc_status, tool_runs, attempts, last, calls, cleanups,
          refused, reports, summary>>

Init ==
    /\ \/ cfg \in EarlyConfigs
       \/ \E tree \in Trees : \E src \in {SrcRoot, SrcRoot \o <<SEP>>} \cup tree :
          \E dst \in DestsFor(src) : \E mode \in RunModes :
          \E sys \in {"Linux", "Windows"} : \E tool \in BOOLEAN :
          \E pre \in {"absent", "collide", "headfile", "stale"} :
             /\ dst # DstRoot => pre = "absent"
             /\ (mode.encode_to = None /\ mode.decode_from = None) => tool
             /\ sys = "Windows" => (dst = None /\ src = SrcRoot)
             /\ ~tool => pre = "absent"
             /\ pre = "headfile" => (src # SrcRoot \o <<SEP>> /\ ~mode.percentage)
             /\ pre = "stale" => (src = SrcRoot /\ ~mode.percentage /\ sys = "Linux")
             /\ mode.percentage => src = SrcRoot
             /\ src = SrcRoot \o <<SEP>> => (tool /\ dst # None)
             /\ cfg = Config(sys, src, dst, mode, tool, tree, pre)
    /\ files = InitFiles(cfg)
    /\ dirs = InitDirs(cfg)
    /\ pc = "main"
    /\ root_source = cfg.source
    /\ dir_destination = cfg.dest
    /\ dir_destination_original = None
    /\ target = None
    /\ transcode = None
    /\ exit_code = 0
    /\ head = None
    /\ pf = [root_source |-> None, transcoded_file |-> Unbound]
    /\ todo = {}
    /\ tsa = [total_time_ns_transcode |-> 0, total_count_transcode |-> 0,
              total_count_source |-> 0, extension_prev |-> None, target_prev |-> None,
              is_valid_source_prev |-> None, does_transcode_tool_exist_prev |-> None,
              transcode_tool_prev |-> None, options_prev |-> None]
    /\ mcf = [total_count |-> 0, total_count_moved |-> 0, total_size |-> 0]
    /\ total_time_ns_relocate = 0
    /\ dict_files_failed = <<>>
    /\ proc_status = -1
    /\ tool_runs = {}
    /\ attempts = {}
    /\ last = [op |-> "none"]
    /\ calls = [dispatch |-> 0, relocate |-> 0]
    /\ cleanups = <<>>
    /\ refused = {}
    /\ reports = <<>>
    /\ summary = <<>>

\* ------------------------------------------------------------------------
\* TranscodeDispatcher: transcode_source_audio
\* ------------------------------------------------------------------------
\* A faulty variant of is_valid_source_get: every extension passes
is_valid_source_always(extension_original, valid_source) == TRUE

\* Line 384: is the (lower-cased) source extension valid for the target?
is_valid_source_get(extension_original, valid_source) ==
    PyIn(Lower(extension_original), valid_source)

\* A faulty variant of target_is_absent: the existence test of line 401 left out
target_never_checked(fl, ds, path_target_audio_file) == TRUE

\* Line 401: transcode only if the target file does not already exist
target_is_absent(fl, ds, path_target_audio_file) ==
    ~exists(fl, ds, path_target_audio_file)

\* A faulty variant of command_line: the output path comes before the options
command_line_output_early(transcode_tool, path_source_audio_file, options, path_target_audio_file) ==
    <<transcode_tool, path_source_audio_file, path_target_audio_file>> \o options

\* Line 429: the command line handed to subprocess.run
command_line(transcode_tool, path_source_audio_file, options, path_target_audio_file) ==
    <<transcode_tool, path_source_audio_file>> \o options \o <<path_target_audio_file>>

\* A faulty variant of ledger_with_failure: the failure is not entered
ledger_without_failure(ledger, path_source_audio_file) == ledger

\* Lines 447-451: the ledger entry of a failed transcode
ledger_with_failure(ledger, path_source_audio_file) ==
    [q \in DOMAIN ledger \cup {path_source_audio_file} |->
        IF q = path_source_audio_file THEN Hint ELSE ledger[q]]

\* A faulty variant of counted_success: the success is timed but not counted
counted_success_timed_only(st) == [st EXCEPT !.total_time_ns_transcode = @ + 1]

\* Lines 459-462: the counters after a successful transcode
counted_success(st) ==
    [st EXCEPT !.total_count_transcode = @ + 1, !.total_time_ns_transcode = @ + 1]

\* ------------------------------------------------------------------------
\* Python float arithmetic (IEEE 754 binary64: 53 significant binary
\* digits, round to nearest, ties to even).  A mantissa is held in three
\* limbs of 18 binary digits (value m2 * 2^36 + m1 * 2^18 + m0), so that no
\* intermediate value leaves the range of the integers at hand.
\* ------------------------------------------------------------------------
\* 2^18, the base of a limb, and 2^17
Limb == 262144
HalfLimb == 131072
\* Powers of two by which a count is scaled
Pow2 == {1, 2, 4, 8, 16, 32, 64, 128, 256, 512, 1024}

\* The limbs with the carries of the lower limbs taken up
Limbs(m2, m1, m0) ==
    [m2 |-> m2 + (m1 + m0 \div Limb) \div Limb,
     m1 |-> (m1 + m0 \div Limb) % Limb,
     m0 |-> m0 % Limb]

\* The power of two that brings a (0 < a < b) into [b, 2b)
lead_scale(a, b) == CHOOSE pw \in Pow2 : b <= a * pw /\ a * pw < 2 * b

\* Long division: the 54 leading binary digits of a / b (a scaled into
\* [b, 2b)), as limbs d2 d1 d0, and whether a remainder is left
quotient_digits(a, b) ==
    LET n2 == a * HalfLimb
        n1 == (n2 % b) * Limb
        n0 == (n1 % b) * Limb
    IN [d2 |-> n2 \div b, d1 |-> n1 \div b, d0 |-> n0 \div b, sticky |-> n0 % b # 0]

\* Round to nearest, ties to even: the 53-digit mantissa of the quotient d
rounded_quotient(d) ==
    Limbs(d.d2 \div 2,
          d.d1 \div 2 + (d.d2 % 2) * HalfLimb,
          d.d0 \div 2 + (d.d1 % 2) * HalfLimb
          + (IF d.d0 % 2 = 1 /\ (d.sticky \/ (d.d0 \div 2) % 2 = 1) THEN 1 ELSE 0))

\* count / total as a float (0 < count < total): the mantissa of the
\* quotient, which is the quotient scaled by 2^52 * pw
float_true_div(count, total, pw) == rounded_quotient(quotient_digits(count * pw, total))

\* Round to nearest, ties to even, of a product p of a mantissa and 100: its
\* lowest digits, below cut (a power of two), are cut off
rounded_product(p, cut) ==
    Limbs(p.m2, p.m1,
          p.m0 - (p.m0 % cut)
          + (IF \/ 2 * (p.m0 % cut) > cut
                \/ (2 * (p.m0 % cut) = cut /\ (p.m0 \div cut) % 2 = 1)
             THEN cut ELSE 0))

\* q * 100 as a float, at the scale of q: the product has 59 or 60 digits,
\* of which 53 are kept
float_times_100(q) ==
    rounded_product(Limbs(q.m2 * 100, q.m1 * 100, q.m0 * 100),
                    IF Limbs(q.m2 * 100, q.m1 * 100, q.m0 * 100).m2 >= 64 * HalfLimb
                    THEN 128 ELSE 64)

\* math.floor of a float given by its limbs at scale 2^52 * pw: the value
\* is below 2^60, and the two lower limbs are below 2^36
math_floor(p, pw) == IF pw >= 256 THEN 0 ELSE p.m2 \div (pw * (HalfLimb \div 2))

\* Lines 480-481: math.floor((count / total) * 100), for 0 < count < total
percent_complete_at(count, total, pw) ==
    math_floor(float_times_100(float_true_div(count, total, pw)), pw)
percent_complete(count, total) == percent_complete_at(count, total, lead_scale(count, total))

\* Lines 478-488: the progress line printed after a processed file, if any
progress_line(st) ==
    IF st.total_count_source # 0 /\ st.total_count_transcode # 0
    THEN IF st.total_count_transcode < st.total_count_source
         THEN << [all |-> FALSE,
                  percent |-> percent_complete(st.total_count_transcode,
                                               st.total_count_source)] >>
         ELSE << [all |-> TRUE, percent |-> 100] >>
    ELSE <<>>

\* What a call returns and leaves behind: the function attributes, the file
\* system and the ledger after it, the tool invocations made, the progress
\* line printed, the return value, the branch taken; and, for the record,
\* what the call was given.
dispatched(st, fl, ledger, runs, report, ret, outcome, given) ==
    [tsa |-> st, files |-> fl, ledger |-> ledger, runs |-> runs, report |-> report,
     ret |-> ret, outcome |-> outcome, source |-> given.source,
     extension |-> given.extension, output |-> given.output, gather |-> given.gather,
     output_before |-> given.output_before, valid_source |-> given.valid_source]

\* A faulty variant of resolved: once filled, the tuple is never resolved anew
resolved_once(st, extension_original, extension, reg) ==
    IF st.extension_prev # None THEN st
    ELSE [st EXCEPT !.extension_prev = extension_original,
                    !.target_prev = reg.valid_target[extension],
                    !.is_valid_source_prev =
                        is_valid_source_get(extension_original, reg.valid_source[extension]),
                    !.does_transcode_tool_exist_prev = cfg.tool_present,
                    !.transcode_tool_prev = reg.tool[extension][1],
                    !.options_prev = reg.tool[extension][2]]

\* A faulty variant of resolved: the tool is taken to be installed
resolved_tool_assumed(st, extension_original, extension, reg) ==
    IF extension_original = st.extension_prev THEN st
    ELSE [st EXCEPT !.extension_prev = extension_original,
                    !.target_prev = reg.valid_target[extension],
                    !.is_valid_source_prev =
                        is_valid_source_get(extension_original, reg.valid_source[extension]),
                    !.does_transcode_tool_exist_prev = TRUE,
                    !.transcode_tool_prev = reg.tool[extension][1],
                    !.options_prev = reg.tool[extension][2]]

\* Lines 368-390: the tuple resolved for the previous file is reused when the
\* extension is the same, and resolved anew (and kept) otherwise.  Either
\* way the values used for this file are those the attributes now hold.
resolved(st, extension_original, extension, reg) ==
    IF extension_original = st.extension_prev THEN st
    ELSE [st EXCEPT !.extension_prev = extension_original,
                    !.target_prev = reg.valid_target[extension],
                    !.is_valid_source_prev =
                        is_valid_source_get(extension_original, reg.valid_source[extension]),
                    !.does_transcode_tool_exist_prev = cfg.tool_present,
                    !.transcode_tool_prev = reg.tool[extension][1],
                    !.options_prev = reg.tool[extension][2]]

\* Lines 426-462: the tool has run with exit code rc
tool_ran(st, fl, ledger, run, given) ==
    IF run.rc = 0
    THEN dispatched(counted_success(st), WriteFile(fl, run.output, "transcoded"), ledger,
                    {run}, progress_line(counted_success(st)), run.output, "transcoded",
                    given)
    ELSE dispatched(st, fl, ledger_with_failure(ledger, run.source), {run},
                    progress_line(st), run.output, "failed", given)

\* A faulty variant of counted_eligible: the eligible file is not counted
counted_eligible_dropped(st) == st

\* Line 402: the counting pass counts an eligible file
counted_eligible(st) == [st EXCEPT !.total_count_source = @ + 1]

\* Lines 399-490, with the resolved tuple in st and the target path known
dispatch_file(st, fl, ledger, absent, given, rc) ==
    IF ~st.is_valid_source_prev
    THEN dispatched(st, fl, ledger, {}, <<>>, given.output, "ineligible", given)
    ELSE IF absent
    THEN IF given.gather
         THEN dispatched(counted_eligible(st), fl, ledger, {}, <<>>, None, "counted",
                         given)
         ELSE IF st.does_transcode_tool_exist_prev
         THEN tool_ran(st, fl, ledger,
                       [argv |-> command_line(st.transcode_tool_prev, given.source,
                                              st.options_prev, given.output),
                        rc |-> rc, source |-> given.source, output |-> given.output],
                       given)
         ELSE dispatched(st, fl, ledger, {}, progress_line(st), given.output, "no_tool",
                         given)
    ELSE IF given.gather
         THEN dispatched(st, fl, ledger, {}, <<>>, None, "existing_uncounted", given)
         ELSE dispatched(st, fl, ledger, {}, progress_line(st), given.output,
                         "skipped_existing", given)

\* Line 393: the target path, and what the call is given
given_file(fl, path_source_audio_file, extension_original, path_target_audio_file, valid_source, percentage_gather) ==
    [source |-> path_source_audio_file, extension |-> extension_original,
     output |-> path_target_audio_file, gather |-> percentage_gather,
     output_before |-> IF isfile(fl, path_target_audio_file)
                       THEN fl[NormPath(path_target_audio_file)] ELSE "absent",
     valid_source |-> valid_source]

dispatch_resolved(st, fl, ds, ledger, path_source_audio_file, re, valid_source, percentage_gather, rc) ==
    dispatch_file(st, fl, ledger,
                  target_is_absent(fl, ds, re[1] \o <<EXTSEP>> \o st.target_prev),
                  given_file(fl, path_source_audio_file, re[2],
                             re[1] \o <<EXTSEP>> \o st.target_prev, valid_source,
                             percentage_gather),
                  rc)

dispatch_split(st, fl, ds, ledger, path_source_audio_file, re, extension, reg, percentage_gather, rc) ==
    dispatch_resolved(resolved(st, re[2], extension, reg), fl, ds, ledger,
                      path_source_audio_file, re, reg.valid_source[extension],
                      percentage_gather, rc)

\* The whole call.  rc is the exit code the external tool would give.
transcode_source_audio(st, fl, ds, ledger, path_source_audio_file, format_target, operation_transcode, percentage_gather, rc) ==
    dispatch_split(st, fl, ds, ledger, path_source_audio_file,
                   split_root_extension(path_source_audio_file), Lower(format_target),
                   dict_transcode_tool_platform_get(cfg.system, operation_transcode),
                   percentage_gather, rc)

\* ------------------------------------------------------------------------
\* RelocationEngine: create_directory, move_or_copy_file,
\* build_target_and_operate
\* ------------------------------------------------------------------------
\* create_directory.  mkdir_ok: whether the operating system lets the
\* directory be made where no regular file is in its way.  The handler of a
\* failed mkdir reads error_mkdir.output, which an OSError does not have: an
\* AttributeError leaves the function (raised), and status False is never
\* returned.
create_directory(fl, ds, target_absolute_directory, mkdir_ok) ==
    IF ~exists(fl, ds, target_absolute_directory)
    THEN IF mkdir_ok /\ ~blocked(fl, target_absolute_directory)
         THEN [dirs |-> ds \cup WithParents(NormPath(target_absolute_directory)),
               status |-> TRUE, raised |-> FALSE]
         ELSE [dirs |-> ds, status |-> FALSE, raised |-> TRUE]
    ELSE [dirs |-> ds, status |-> TRUE, raised |-> FALSE]

\* shutil.move(src, dst): into dst when dst is a directory (refusing an
\* existing entry of that name), else onto dst.  io_ok: no permission,
\* cross-device or I/O error.
shutil_move(fl, ds, src, dst, io_ok) ==
    LET real_dst == IF isdir(ds, dst) THEN join(dst, basename(src)) ELSE dst
    IN IF isdir(ds, dst) /\ exists(fl, ds, real_dst) THEN [ok |-> FALSE, files |-> fl]
       ELSE IF ~io_ok THEN [ok |-> FALSE, files |-> fl]
       ELSE [ok |-> TRUE,
             files |-> WriteFile(RemoveFile(fl, src), real_dst, fl[NormPath(src)])]

\* A faulty variant of shutil_copy2: the source is taken away as by a move
shutil_copy2_removing(fl, ds, src, dst, io_ok) ==
    LET real_dst == IF isdir(ds, dst) THEN join(dst, basename(src)) ELSE dst
    IN IF NormPath(real_dst) = NormPath(src) THEN [ok |-> FALSE, files |-> fl]
       ELSE IF ~io_ok THEN [ok |-> FALSE, files |-> fl]
       ELSE [ok |-> TRUE,
             files |-> WriteFile(RemoveFile(fl, src), real_dst, fl[NormPath(src)])]

\* shutil.copy2(src, dst): into dst when dst is a directory, replacing an
\* existing file of that name; copying a file onto itself is an error.
shutil_copy2(fl, ds, src, dst, io_ok) ==
    LET real_dst == IF isdir(ds, dst) THEN join(dst, basename(src)) ELSE dst
    IN IF NormPath(real_dst) = NormPath(src) THEN [ok |-> FALSE, files |-> fl]
       ELSE IF ~io_ok THEN [ok |-> FALSE, files |-> fl]
       ELSE [ok |-> TRUE, files |-> WriteFile(fl, real_dst, fl[NormPath(src)])]

\* A faulty variant of relocation_class: the target format's files are copied
relocation_class_copy_only(extension, extension_target) ==
    IF InTuple(extension, main_and_relevant_files_for_audio_get(extension_target))
    THEN "copy" ELSE "ignore"

\* Lines 228 and 253: what move_or_copy_file does with an extension
relocation_class(extension, extension_target) ==
    IF InTuple(extension, <<opus, flac>>) THEN "move"
    ELSE IF InTuple(extension, Tail(main_and_relevant_files_for_audio_get(extension_target)))
    THEN "copy"
    ELSE "ignore"

\* Lines 244-248: the counters after a successful move
counted_move(st, size_file) ==
    [st EXCEPT !.total_count_moved = @ + 1, !.total_count = @ + 1,
               !.total_size = @ + size_file]

\* A faulty variant of counted_copy: the processed-file counter is left alone
counted_copy_uncounted(st, size_file) == [st EXCEPT !.total_size = @ + size_file]

\* Lines 269-271: the counters after a successful copy
counted_copy(st, size_file) ==
    [st EXCEPT !.total_size = @ + size_file, !.total_count = @ + 1]

\* Lines 235-241 and 260-266: the handler of a failed move or copy prints
\* error.stderr; OSError, IOError and shutil.Error carry no such attribute,
\* so an AttributeError leaves move_or_copy_file.
handler_raises(error_class) == error_class \in {"OSError", "IOError", "shutil.Error"}

\* What a call of the engine leaves behind: the file system, the counters, the
\* branch taken, whether an exception left the call, the shutil call made;
\* and, for the record, what the call was given.
relocated(fl, st, outcome, raised, attempt, file_source, extension, dstdir) ==
    [files |-> fl, mcf |-> st, outcome |-> outcome, raised |-> raised,
     attempt |-> attempt, source |-> file_source, extension |-> extension,
     dstdir |-> dstdir]

\* Lines 233-250 and 258-272: after shutil.move / shutil.copy2 returned or failed
after_move(done, fl, st, size_file, file_source, extension, dstdir) ==
    IF done.ok
    THEN relocated(done.files, counted_move(st, size_file), "moved", FALSE,
                   {[how |-> "move", src |-> file_source, dst |-> dstdir, ok |-> TRUE]},
                   file_source, extension, dstdir)
    ELSE relocated(fl, st, "move_error", handler_raises("shutil.Error"),
                   {[how |-> "move", src |-> file_source, dst |-> dstdir, ok |-> FALSE]},
                   file_source, extension, dstdir)

after_copy(done, fl, st, size_file, file_source, extension, dstdir) ==
    IF done.ok
    THEN relocated(done.files, counted_copy(st, size_file), "copied", FALSE,
                   {[how |-> "copy", src |-> file_source, dst |-> dstdir, ok |-> TRUE]},
                   file_source, extension, dstdir)
    ELSE relocated(fl, st, "copy_error", handler_raises("shutil.Error"),
                   {[how |-> "copy", src |-> file_source, dst |-> dstdir, ok |-> FALSE]},
                   file_source, extension, dstdir)

move_or_copy_classified(class, fl, ds, st, file_source, extension, target_absolute_directory, io_ok) ==
    IF class = "move"
    THEN after_move(shutil_move(fl, ds, file_source, target_absolute_directory, io_ok),
                    fl, st, getsize(fl, file_source), file_source, extension,
                    target_absolute_directory)
    ELSE IF class = "copy"
    THEN after_copy(shutil_copy2(fl, ds, file_source, target_absolute_directory, io_ok),
                    fl, st, getsize(fl, file_source), file_source, extension,
                    target_absolute_directory)
    ELSE relocated(fl, st, "ignored", FALSE, {}, file_source, extension,
                   target_absolute_directory)

move_or_copy_split(fl, ds, st, file_source, extension, target_absolute_directory, extension_target, io_ok) ==
    move_or_copy_classified(relocation_class(extension, extension_target), fl, ds, st,
                            file_source, extension, target_absolute_directory, io_ok)

move_or_copy_file(fl, ds, st, file_source, target_absolute_directory, extension_target, io_ok) ==
    move_or_copy_split(fl, ds, st, file_source, split_root_extension(file_source)[2],
                       target_absolute_directory, extension_target, io_ok)

\* Line 315: only the target format's own files and the companion files are
\* relocated at all
is_relevant(extension_source, extension_target) ==
    InTuple(extension_source, main_and_relevant_files_for_audio_get(extension_target))

\* Lines 331-333: the mirrored directory of a walked source directory
mirrored_directory(root_source_, dir_source, dir_destination_) ==
    join(dir_destination_, PartitionTail(dir_source, root_source_ \o <<SEP>>))

\* The result of build_target_and_operate: that of the engine, with the
\* directories and the relocation time counter (which an exception skips)
operated(r, ds, time_relocate) ==
    [files |-> r.files, dirs |-> ds, mcf |-> r.mcf, outcome |-> r.outcome,
     raised |-> r.raised, attempt |-> r.attempt, source |-> r.source,
     extension |-> r.extension, dstdir |-> r.dstdir,
     time |-> IF r.raised THEN time_relocate ELSE time_relocate + 1]

\* Lines 335-338: the mirrored directory is made, then the engine is called
operate_walked(made, fl, ds, st, time_relocate, path_file_source, extension_source, target_absolute_directory, extension_target, io_ok) ==
    IF made.raised
    THEN operated(relocated(fl, st, "mkdir_error", TRUE, {}, path_file_source,
                            extension_source, target_absolute_directory),
                  ds, time_relocate)
    ELSE operated(move_or_copy_file(fl, made.dirs, st, path_file_source,
                                    target_absolute_directory, extension_target, io_ok),
                  made.dirs, time_relocate)

operate_relevant(fl, ds, st, time_relocate, root_source_, dir_source, path_file_source, extension_source, target_absolute_directory, dir_destination_, extension_target, mkdir_ok, io_ok) ==
    IF root_source_ # <<>> /\ dir_source # <<>>
    THEN operate_walked(create_directory(fl, ds, target_absolute_directory, mkdir_ok),
                        fl, ds, st, time_relocate, path_file_source, extension_source,
                        target_absolute_directory, extension_target, io_ok)
    ELSE operated(move_or_copy_file(fl, ds, st, path_file_source, dir_destination_,
                                    extension_target, io_ok),
                  ds, time_relocate)

operate_split(fl, ds, st, time_relocate, root_source_, dir_source, file_source, extension_source, dir_destination_, extension_target, mkdir_ok, io_ok) ==
    IF is_relevant(extension_source, extension_target)
    THEN operate_relevant(fl, ds, st, time_relocate, root_source_, dir_source,
                          join(dir_source, file_source), extension_source,
                          mirrored_directory(root_source_, dir_source, dir_destination_),
                          dir_destination_, extension_target, mkdir_ok, io_ok)
    ELSE [files |-> fl, dirs |-> ds, mcf |-> st, outcome |-> "ignored", raised |-> FALSE,
          attempt |-> {}, source |-> join(dir_source, file_source),
          extension |-> extension_source, dstdir |-> None, time |-> time_relocate]

\* The whole call
build_target_and_operate(fl, ds, st, time_relocate, root_source_, dir_source, file_source, dir_destination_, extension_target, mkdir_ok, io_ok) ==
    operate_split(fl, ds, st, time_relocate, root_source_, dir_source, file_source,
                  split_root_extension(file_source)[2], dir_destination_, extension_target,
                  mkdir_ok, io_ok)

\* ------------------------------------------------------------------------
\* Cleanup: delete_empty_directories_in_target
\* ------------------------------------------------------------------------
\* A faulty variant of can_rmdir: the files of the directory are not looked at
can_rmdir_with_files(fl, ds, d) ==
    /\ d \in ds /\ Len(d) > 1
    /\ \A e \in ds : e = d \/ dirname(e) # d

\* os.rmdir succeeds on an empty directory other than the file system root
can_rmdir(fl, ds, d) ==
    /\ d \in ds /\ Len(d) > 1
    /\ FilesIn(fl, d) = {}
    /\ \A e \in ds : e = d \/ dirname(e) # d

\* os.removedirs: remove the leaf, then every parent in turn until one fails
RECURSIVE removedirs_from(_, _, _)
removedirs_from(fl, ds, d) ==
    IF can_rmdir(fl, ds, d) THEN removedirs_from(fl, ds \ {d}, dirname(d)) ELSE ds

\* The loop over os.walk(dir_destination), top-down; left: the directories
\* the walk has still to reach.  A directory removed before the walk reaches
\* it is not yielded.
RECURSIVE cleanup_walk(_, _, _)
cleanup_walk(fl, ds, left) ==
    IF left = {} THEN ds
    ELSE LET d == CHOOSE x \in left : \A y \in left : Len(x) <= Len(y)
         IN cleanup_walk(fl, IF d \in ds THEN removedirs_from(fl, ds, d) ELSE ds,
                         left \ {d})

delete_empty_directories_in_target(fl, ds, dir_destination_) ==
    cleanup_walk(fl, ds, DirsUnder(ds, dir_destination_))

\* ------------------------------------------------------------------------
\* BatchCoordinator: main, process_dir, process_file, statistic_print
\* ------------------------------------------------------------------------
\* Line 898 calls main and drops its return value: the interpreter ends with
\* status 0 when main returns and with status 1 on an uncaught exception.
interpreter_status(main_returned) == IF main_returned THEN 0 ELSE 1

\* dir_default_set
dir_default_set(ds, root_source_) ==
    IF isdir(ds, root_source_) THEN root_source_ ELSE dirname(root_source_)

\* Line 616: the head directory under the destination
head_directory(root_source_, dir_destination_) ==
    IF root_source_ # dir_destination_
    THEN join3(<<SEP>>, dir_destination_ \o <<SEP>>, basename(root_source_))
    ELSE dir_destination_

\* History: what a dispatcher call was given and did (st: the function
\* attributes before the call)
dispatch_seen(r, st) ==
    [op |-> "dispatch", source |-> r.source, extension |-> r.extension,
     output |-> r.output, output_before |-> r.output_before, gather |-> r.gather,
     outcome |-> r.outcome, valid_source |-> r.valid_source, ran |-> r.runs # {},
     before |-> st]

\* History: what a relocation engine call was given and did (st: the
\* function attributes before the call)
relocate_seen(r, st) ==
    [op |-> "relocate", source |-> r.source, extension |-> r.extension,
     dstdir |-> r.dstdir, outcome |-> r.outcome, before |-> st]

\* An uncaught exception ends the run
Crash ==
    /\ pc' = "crashed"
    /\ proc_status' = interpreter_status(FALSE)

\* main, up to the call of process_dir or process_file (lines 798-870)
Main ==
    /\ pc = "main"
    /\ LET tgt == IF cfg.encode_to # None THEN cfg.encode_to
                  ELSE IF cfg.decode_from # None THEN cfg.decode_from
                  ELSE cfg.move_format
           fatal == \/ ~is_supported_platform(cfg.system)
                    \/ tgt = None
                    \/ (cfg.move_format # None /\ cfg.percentage)
                    \/ ~exists(files, dirs, root_source)
       IN IF fatal
          THEN /\ exit_code' = 1
               /\ pc' = "exit"
               /\ proc_status' = interpreter_status(TRUE)
               /\ UNCHANGED <<target, transcode, dir_destination, dir_destination_original>>
          ELSE /\ target' = tgt
               /\ transcode' = IF cfg.encode_to # None THEN OpEncode
                               ELSE IF cfg.decode_from # None THEN OpDecode ELSE None
               /\ dir_destination_original' = dir_destination
               /\ dir_destination' = IF dir_destination = None
                                     THEN dir_default_set(dirs, root_source)
                                     ELSE dir_destination
               /\ pc' = IF isdir(dirs, root_source)
                        THEN IF cfg.percentage THEN "count_begin" ELSE "dir_begin"
                        ELSE "file_begin"
               /\ UNCHANGED <<exit_code, proc_status>>
    /\ UNCHANGED <<cfg, files, dirs, root_source, head, pf, todo, tsa, mcf,
                   total_time_ns_relocate, dict_files_failed, tool_runs, attempts, last,
                   calls, cleanups, refused,
                   reports, summary>>

\* History: the head directory was not there and could not be made
refusal(fl, ds, hd, mkdir_ok) ==
    IF ~isdir(ds, hd) /\ (blocked(fl, hd) \/ ~mkdir_ok) THEN {hd} ELSE {}

\* process_dir, lines 610-625 and 664-670: the head directory is there or is
\* made; otherwise the pass is given up with exit code 1 (which main drops
\* after the counting pass)
HeadMade(hd, made) ==
    IF made.raised
    THEN /\ Crash
         /\ last' = [op |-> "head", outcome |-> "mkdir_error"]
         /\ UNCHANGED <<dirs, head, todo, exit_code>>
    ELSE IF exists(files, dirs, hd) \/ made.status
    THEN /\ dirs' = made.dirs
         /\ head' = hd
         /\ todo' = IF transcode # None THEN walk(files, made.dirs, root_source) ELSE {}
         /\ pc' = IF pc = "count_begin" THEN "count_walk" ELSE "transcode_walk"
         /\ last' = [op |-> "head", outcome |-> "ok"]
         /\ UNCHANGED <<proc_status, exit_code>>
    ELSE /\ pc' = IF pc = "count_begin" THEN "dir_begin" ELSE "stats"
         /\ exit_code' = IF pc = "count_begin" THEN exit_code ELSE 1
         /\ last' = [op |-> "head", outcome |-> "aborted"]
         /\ UNCHANGED <<dirs, head, todo, proc_status>>

HeadNamed(hd, mkdir_ok) ==
    /\ HeadMade(hd, create_directory(files, dirs, hd, mkdir_ok))
    /\ refused' = refused \cup refusal(files, dirs, hd, mkdir_ok)

ProcessDirBegin ==
    /\ pc \in {"count_begin", "dir_begin"}
    /\ \E mkdir_ok \in BOOLEAN :
        HeadNamed(head_directory(root_source, dir_destination), mkdir_ok)
    /\ UNCHANGED <<cfg, files, root_source, dir_destination, dir_destination_original,
                   target, transcode, pf, tsa, mcf, total_time_ns_relocate,
                   dict_files_failed, tool_runs, attempts, calls, cleanups, reports,
                   summary>>

\* The effect of a dispatcher call with result r
Dispatched(r) ==
    /\ tsa' = r.tsa
    /\ files' = r.files
    /\ dict_files_failed' = r.ledger
    /\ tool_runs' = tool_runs \cup r.runs
    /\ reports' = reports \o r.report
    /\ last' = dispatch_seen(r, tsa)
    /\ calls' = [calls EXCEPT !.dispatch = @ + 1]

\* process_dir, lines 632-639: one file of the counting or transcoding walk
TranscodeFile ==
    /\ pc \in {"count_walk", "transcode_walk"}
    /\ \E item \in NextItems(todo) : \E rc \in {0, 1} :
        /\ todo' = todo \ {item}
        /\ Dispatched(transcode_source_audio(tsa, files, dirs, dict_files_failed,
                                             join(item.dir, item.file), target, transcode,
                                             pc = "count_walk", rc))
    /\ UNCHANGED <<cfg, dirs, pc, root_source, dir_destination, dir_destination_original,
                   target, transcode, exit_code, head, pf, mcf, total_time_ns_relocate,
                   proc_status, attempts, cleanups,
                   refused, summary>>

\* A faulty variant of WalkEnd: the transcoding walk is left before its last file
WalkEndEarly ==
    /\ pc \in {"count_walk", "transcode_walk"}
    /\ IF pc = "count_walk"
       THEN pc' = "dir_begin" /\ todo' = {}
       ELSE IF root_source # head
       THEN pc' = "relocate_walk" /\ todo' = walk(files, dirs, root_source)
       ELSE pc' = "stats" /\ todo' = {}
    /\ UNCHANGED <<cfg, files, dirs, root_source, dir_destination,
                   dir_destination_original, target, transcode, exit_code, head, pf, tsa,
                   mcf, total_time_ns_relocate, dict_files_failed, proc_status, tool_runs,
                   attempts, last, calls, cleanups, refused,
                   reports, summary>>

\* process_dir, lines 642-648: the walk is over.  The counting pass returns
\* to main, which calls process_dir again; the transcoding pass goes on to
\* relocation unless source and head directory are the same.
WalkEnd ==
    /\ pc \in {"count_walk", "transcode_walk"}
    /\ todo = {}
    /\ IF pc = "count_walk"
       THEN pc' = "dir_begin" /\ todo' = {}
       ELSE IF root_source # head
       THEN pc' = "relocate_walk" /\ todo' = walk(files, dirs, root_source)
       ELSE pc' = "stats" /\ todo' = {}
    /\ UNCHANGED <<cfg, files, dirs, root_source, dir_destination,
                   dir_destination_original, target, transcode, exit_code, head, pf, tsa,
                   mcf, total_time_ns_relocate, dict_files_failed, proc_status, tool_runs,
                   attempts, last, calls, cleanups, refused,
                   reports, summary>>

\* The effect of a build_target_and_operate call with result r
Operated(r) ==
    /\ files' = r.files
    /\ dirs' = r.dirs
    /\ mcf' = r.mcf
    /\ total_time_ns_relocate' = r.time
    /\ attempts' = attempts \cup r.attempt
    /\ last' = relocate_seen(r, mcf)
    /\ calls' = [calls EXCEPT !.relocate = @ + 1]

\* process_dir, lines 653-659: one file of the relocation walk
RelocatedInWalk(r) ==
    /\ Operated(r)
    /\ IF r.raised THEN Crash ELSE UNCHANGED <<pc, proc_status>>

RelocateFile ==
    /\ pc = "relocate_walk"
    /\ \E item \in NextItems(todo) : \E mkdir_ok \in BOOLEAN : \E io_ok \in BOOLEAN :
        /\ todo' = todo \ {item}
        /\ RelocatedInWalk(build_target_and_operate(files, dirs, mcf,
                               total_time_ns_relocate, root_source, item.dir, item.file,
                               head, target, mkdir_ok, io_ok))
    /\ UNCHANGED <<cfg, root_source, dir_destination, dir_destination_original, target,
                   transcode, exit_code, head, pf, tsa, dict_files_failed, tool_runs,
                   cleanups, refused,
                   reports, summary>>

\* process_dir, line 663: the cleanup pass, on the destination as given
Cleanup ==
    /\ pc = "relocate_walk"
    /\ todo = {}
    /\ dirs' = delete_empty_directories_in_target(files, dirs, dir_destination_original)
    /\ cleanups' = Append(cleanups, dirs \ dirs')
    /\ pc' = "stats"
    /\ last' = [op |-> "cleanup"]
    /\ UNCHANGED <<cfg, files, root_source, dir_destination, dir_destination_original,
                   target, transcode, exit_code, head, pf, todo, tsa, mcf,
                   total_time_ns_relocate, dict_files_failed, proc_status, tool_runs,
                   attempts, calls, refused, reports, summary>>

\* process_file, lines 675-690: the destination is there or is made, and
\* the file is transcoded when an operation was asked for
FileTranscoded(r, ds) ==
    /\ Dispatched(r)
    /\ pf' = [root_source |-> IF exists(r.files, ds, r.ret) THEN r.ret ELSE root_source,
              transcoded_file |-> r.ret]

FileHeadMade(made, rc) ==
    IF made.raised
    THEN /\ Crash
         /\ last' = [op |-> "head", outcome |-> "mkdir_error"]
         /\ UNCHANGED <<files, dirs, pf, tsa, dict_files_failed, tool_runs, reports, calls,
                        exit_code>>
    ELSE IF ~(exists(files, dirs, dir_destination) \/ made.status)
    THEN /\ pc' = "stats"
         /\ exit_code' = 1
         /\ last' = [op |-> "head", outcome |-> "aborted"]
         /\ UNCHANGED <<files, dirs, pf, tsa, dict_files_failed, tool_runs, reports, calls,
                        proc_status>>
    ELSE IF transcode # None
    THEN /\ dirs' = made.dirs
         /\ FileTranscoded(transcode_source_audio(tsa, files, made.dirs, dict_files_failed,
                                                  root_source, target, transcode, FALSE, rc),
                           made.dirs)
         /\ pc' = "file_relocate"
         /\ UNCHANGED <<proc_status, exit_code>>
    ELSE /\ dirs' = made.dirs
         /\ pf' = [root_source |-> root_source, transcoded_file |-> Unbound]
         /\ pc' = "file_relocate"
         /\ last' = [op |-> "head", outcome |-> "ok"]
         /\ UNCHANGED <<files, tsa, dict_files_failed, tool_runs, reports, calls,
                        proc_status, exit_code>>

ProcessFileTranscode ==
    /\ pc = "file_begin"
    /\ \E mkdir_ok \in BOOLEAN : \E rc \in {0, 1} :
        /\ FileHeadMade(create_directory(files, dirs, dir_destination, mkdir_ok), rc)
        /\ refused' = refused \cup refusal(files, dirs, dir_destination, mkdir_ok)
    /\ UNCHANGED <<cfg, root_source, dir_destination, dir_destination_original, target,
                   transcode, head, todo, mcf, total_time_ns_relocate, attempts,
                   cleanups, summary>>

\* process_file, lines 692-699: the relocation of the single file.  Line 695
\* prints transcoded_file, which is unbound when no operation was asked for:
\* an UnboundLocalError leaves process_file before the engine is called.
FileRelocated(r) ==
    /\ Operated(r)
    /\ IF r.raised THEN Crash ELSE pc' = "stats" /\ UNCHANGED proc_status

ProcessFileRelocate ==
    /\ pc = "file_relocate"
    /\ \E io_ok \in BOOLEAN :
        IF pf.root_source # dir_destination
        THEN IF pf.transcoded_file = Unbound
             THEN /\ Crash
                  /\ last' = [op |-> "file_relocate", outcome |-> "unbound_error"]
                  /\ UNCHANGED <<files, dirs, mcf, total_time_ns_relocate, attempts, calls>>
             ELSE FileRelocated(build_target_and_operate(files, dirs, mcf,
                                    total_time_ns_relocate, <<>>, <<>>, pf.root_source,
                                    dir_destination, target, TRUE, io_ok))
        ELSE /\ pc' = "stats"
             /\ UNCHANGED <<files, dirs, mcf, total_time_ns_relocate, attempts, last,
                            calls, proc_status>>
    /\ UNCHANGED <<cfg, root_source, dir_destination, dir_destination_original, target,
                   transcode, exit_code, head, pf, todo, tsa, dict_files_failed, tool_runs,
                   cleanups, refused,
                   reports, summary>>

\* statistic_print and the return of main (lines 709-748, 873, 894, 898)
StatisticPrint ==
    /\ pc = "stats"
    /\ summary' = << [failed |-> DOMAIN dict_files_failed,
                       transcoded |-> IF transcode # None
                                      THEN <<tsa.total_count_transcode>> ELSE <<>>,
                       relocated |-> IF root_source # dir_destination
                                     THEN << [moved |-> mcf.total_count_moved,
                                              copied |-> mcf.total_count
                                                         - mcf.total_count_moved,
                                              files |-> mcf.total_count,
                                              size |-> mcf.total_size] >>
                                     ELSE <<>>] >>
    /\ pc' = "exit"
    /\ proc_status' = interpreter_status(TRUE)
    /\ UNCHANGED <<cfg, files, dirs, root_source, dir_destination,
                   dir_destination_original, target, transcode, exit_code, head, pf, todo,
                   tsa, mcf, total_time_ns_relocate, dict_files_failed, tool_runs, attempts,
                   last, calls, cleanups, refused, reports>>

Next ==
    \/ Main
    \/ ProcessDirBegin
    \/ TranscodeFile
    \/ WalkEnd
    \/ RelocateFile
    \/ Cleanup
    \/ ProcessFileTranscode
    \/ ProcessFileRelocate
    \/ StatisticPrint

Spec == Init /\ [][Next]_vars

\* ------------------------------------------------------------------------
\* The progress report alone: a transcoding pass after a counting pass that
\* found total_count_source eligible files, followed by its counters and
\* the last two progress lines only (lines 459-462 and 476-488)
\* ------------------------------------------------------------------------
ProgressConfig ==
    Config("Linux", SrcRoot, None,
           [encode_to |-> flac, decode_from |-> None, move_format |-> None,
            percentage |-> TRUE], TRUE, {}, "absent")

\* The last line printed before, and the line printed now
last_two(lines, line) ==
    IF line = <<>> THEN lines
    ELSE IF lines = <<>> THEN line
    ELSE <<lines[Len(lines)]>> \o line

InitProgress ==
    /\ cfg = ProgressConfig
    /\ files = InitFiles(cfg)
    /\ dirs = InitDirs(cfg)
    /\ pc = "transcode_walk"
    /\ root_source = cfg.source
    /\ dir_destination = cfg.source
    /\ dir_destination_original = None
    /\ target = flac
    /\ transcode = OpEncode
    /\ exit_code = 0
    /\ head = cfg.source
    /\ pf = [root_source |-> None, transcoded_file |-> Unbound]
    /\ todo = {}
    /\ \E n \in 1..MaxEligible :
         tsa = [total_time_ns_transcode |-> 0, total_count_transcode |-> 0,
                total_count_source |-> n, extension_prev |-> wav, target_prev |-> flac,
                is_valid_source_prev |-> TRUE, does_transcode_tool_exist_prev |-> TRUE,
                transcode_tool_prev |-> dict_transcode_tool_get("Linux", OpEncode)[flac][1],
                options_prev |-> options_encode_flac]
    /\ mcf = [total_count |-> 0, total_count_moved |-> 0, total_size |-> 0]
    /\ total_time_ns_relocate = 0
    /\ dict_files_failed = <<>>
    /\ proc_status = -1
    /\ tool_runs = {}
    /\ attempts = {}
    /\ last = [op |-> "none"]
    /\ calls = [dispatch |-> 0, relocate |-> 0]
    /\ cleanups = <<>>
    /\ refused = {}
    /\ reports = <<>>
    /\ summary = <<>>

\* One eligible file is transcoded: the counters go up, the line is printed
ProgressTranscoded ==
    /\ calls.dispatch < tsa.total_count_source
    /\ tsa' = counted_success(tsa)
    /\ reports' = last_two(reports, progress_line(tsa'))
    /\ calls' = [calls EXCEPT !.dispatch = @ + 1]
    /\ UNCHANGED <<cfg, files, dirs, pc, root_source, dir_destination,
                   dir_destination_original, target, transcode, exit_code, head, pf, todo,
                   mcf, total_time_ns_relocate, dict_files_failed, proc_status, tool_runs,
                   attempts, last, cleanups, refused, summary>>

\* The tool fails on one eligible file: the line is printed all the same
ProgressFailed ==
    /\ calls.dispatch < tsa.total_count_source
    /\ reports' = last_two(reports, progress_line(tsa))
    /\ calls' = [calls EXCEPT !.dispatch = @ + 1]
    /\ UNCHANGED <<cfg, files, dirs, pc, root_source, dir_destination,
                   dir_destination_original, target, transcode, exit_code, head, pf, todo,
                   tsa, mcf, total_time_ns_relocate, dict_files_failed, proc_status,
                   tool_runs, attempts, last, cleanups, refused, summary>>

NextProgress ==
    \/ ProgressTranscoded
    \/ ProgressFailed

SpecProgress == InitProgress /\ [][NextProgress]_vars

\* ------------------------------------------------------------------------
\* The time summary: total_time_in_hms_get, as statistic_print calls it.
\* Here the time attribute is held in whole seconds (10^9 ns each), so
\* that seconds_raw = total_time_ns / 10^9 is that whole number exactly.
\* ------------------------------------------------------------------------
\* round(n / d) for whole n >= 0, d > 0: the float quotient lies on the same
\* side of the half-way point as the exact one and is exact at a tie, which
\* round() takes to the even neighbour
py_round_div(n, d) ==
    IF 2 * (n % d) < d THEN n \div d
    ELSE IF 2 * (n % d) > d THEN n \div d + 1
    ELSE IF (n \div d) % 2 = 0 THEN n \div d
    ELSE n \div d + 1

\* Lines 513-519: hours from the rounded minutes
hms_hours(minutes, seconds) ==
    IF minutes >= 60
    THEN [hours |-> py_round_div(minutes, 60), minutes |-> minutes % 60, seconds |-> seconds]
    ELSE [hours |-> 0, minutes |-> minutes, seconds |-> seconds]

\* Lines 507-532, for a whole number of seconds (the two branches of lines
\* 523-529 leave a whole number as it is): the numbers printed; hours and
\* minutes are printed when they are not 0
total_time_in_hms_get(seconds_raw) ==
    IF seconds_raw >= 60
    THEN hms_hours(py_round_div(seconds_raw, 60), seconds_raw % 60)
    ELSE hms_hours(0, seconds_raw)

InitSummary ==
    /\ cfg = ProgressConfig
    /\ files = InitFiles(cfg)
    /\ dirs = InitDirs(cfg)
    /\ pc = "stats"
    /\ root_source = cfg.source
    /\ dir_destination = cfg.source
    /\ dir_destination_original = None
    /\ target = flac
    /\ transcode = OpEncode
    /\ exit_code = 0
    /\ head = cfg.source
    /\ pf = [root_source |-> None, transcoded_file |-> Unbound]
    /\ todo = {}
    /\ \E t \in 0..MaxSeconds :
         tsa = [total_time_ns_transcode |-> t, total_count_transcode |-> 1,
                total_count_source |-> 1, extension_prev |-> wav, target_prev |-> flac,
                is_valid_source_prev |-> TRUE, does_transcode_tool_exist_prev |-> TRUE,
                transcode_tool_prev |-> dict_transcode_tool_get("Linux", OpEncode)[flac][1],
                options_prev |-> options_encode_flac]
    /\ mcf = [total_count |-> 0, total_count_moved |-> 0, total_size |-> 0]
    /\ total_time_ns_relocate = 0
    /\ dict_files_failed = <<>>
    /\ proc_status = -1
    /\ tool_runs = {}
    /\ attempts = {}
    /\ last = [op |-> "none"]
    /\ calls = [dispatch |-> 1, relocate |-> 0]
    /\ cleanups = <<>>
    /\ refused = {}
    /\ reports = <<>>
    /\ summary = <<>>

\* statistic_print, lines 724-732: the line with the transcode count and time
StatisticTimes ==
    /\ pc = "stats"
    /\ summary' = << [transcoded |-> tsa.total_count_transcode,
                       time |-> total_time_in_hms_get(tsa.total_time_ns_transcode)] >>
    /\ pc' = "exit"
    /\ proc_status' = interpreter_status(TRUE)
    /\ UNCHANGED <<cfg, files, dirs, root_source, dir_destination,
                   dir_destination_original, target, transcode, exit_code, head, pf, todo,
                   tsa, mcf, total_time_ns_relocate, dict_files_failed, tool_runs,
                   attempts, last, calls, cleanups, refused, reports>>

NextSummary == StatisticTimes

SpecSummary == InitSummary /\ [][NextSummary]_vars

\* ------------------------------------------------------------------------
\* The registry on its own: dict_transcode_tool_platform_get called on a
\* platform, for an operation, and looked up for a target format and a
\* source extension as lines 376-390 do
\* ------------------------------------------------------------------------
Platforms == {"Windows", "Linux", "Darwin"}
Operations == {OpEncode, OpDecode}
SourceExtensions == {wav, aiff, flac, oga, pcm, rf64, w64, opus, <<>>, <<"j", "p", "g">>}

RegistryConfig(sys, op, f) ==
    Config(sys, SrcRoot, None,
           [encode_to |-> IF op = OpEncode THEN f ELSE None,
            decode_from |-> IF op = OpDecode THEN f ELSE None,
            move_format |-> None, percentage |-> FALSE], TRUE, {}, "absent")

InitRegistry ==
    /\ \E sys \in Platforms : \E op \in Operations : \E f \in Formats :
         /\ cfg = RegistryConfig(sys, op, f)
         /\ target = f
         /\ transcode = op
    /\ files = InitFiles(cfg)
    /\ dirs = InitDirs(cfg)
    /\ pc = "resolve"
    /\ root_source = cfg.source
    /\ dir_destination = cfg.source
    /\ dir_destination_original = None
    /\ exit_code = 0
    /\ head = cfg.source
    /\ pf = [root_source |-> None, transcoded_file |-> Unbound]
    /\ todo = {}
    /\ tsa = [total_time_ns_transcode |-> 0, total_count_transcode |-> 0,
              total_count_source |-> 0, extension_prev |-> None, target_prev |-> None,
              is_valid_source_prev |-> None, does_transcode_tool_exist_prev |-> None,
              transcode_tool_prev |-> None, options_prev |-> None]
    /\ mcf = [total_count |-> 0, total_count_moved |-> 0, total_size |-> 0]
    /\ total_time_ns_relocate = 0
    /\ dict_files_failed = <<>>
    /\ proc_status = -1
    /\ tool_runs = {}
    /\ attempts = {}
    /\ last = [op |-> "none"]
    /\ calls = [dispatch |-> 0, relocate |-> 0]
    /\ cleanups = <<>>
    /\ refused = {}
    /\ reports = <<>>
    /\ summary = <<>>

\* What the call gave: the three tables; the function has no raise
\* statement and no lookup that can fail, so it always returns
registry_resolved(sys, op, extension_original, st) ==
    [op |-> "resolve", system |-> sys, operation |-> op,
     extension |-> extension_original, raised |-> FALSE,
     tables |-> dict_transcode_tool_platform_get(sys, op), kept |-> st]

\* Lines 376-390 for one source extension: the tables are fetched and the
\* tuple of the target format is kept in the function attributes
Resolve ==
    /\ pc = "resolve"
    /\ \E e \in SourceExtensions :
         /\ tsa' = resolved(tsa, e, Lower(target),
                            dict_transcode_tool_platform_get(cfg.system, transcode))
         /\ last' = registry_resolved(cfg.system, transcode, e, tsa')
    /\ pc' = "resolved"
    /\ UNCHANGED <<cfg, files, dirs, root_source, dir_destination,
                   dir_destination_original, target, transcode, exit_code, head, pf, todo,
                   mcf, total_time_ns_relocate, dict_files_failed, proc_status, tool_runs,
                   attempts, calls, cleanups, refused, reports, summary>>

NextRegistry == Resolve

SpecRegistry == InitRegistry /\ [][NextRegistry]_vars

\* ------------------------------------------------------------------------
\* Properties
\* ------------------------------------------------------------------------
\* The set a valid-source value of the registry denotes: the items of a
\* tuple, or the one extension a string names
extensions_of(valid_source) ==
    IF valid_source.kind = "tuple"
    THEN {valid_source.val[i] : i \in 1..Len(valid_source.val)}
    ELSE {valid_source.val}

\* The run is over a directory / over a single file
dir_run == cfg.source \in {SrcRoot, SrcRoot \o <<SEP>>}
file_run == cfg.source \in cfg.tree

\* Source root and destination root are the same, given or defaulted
in_place ==
    \/ cfg.dest = None
    \/ NormPath(cfg.dest) = NormPath(cfg.source)
    \/ (file_run /\ cfg.dest = dirname(cfg.source))

ok_moves == {a \in attempts : a.how = "move" /\ a.ok}
ok_copies == {a \in attempts : a.how = "copy" /\ a.ok}

\* C1: a dispatched file is treated as eligible (the tool is invoked for it, or
\* the eligible counter is incremented) only if its lower-cased extension is
\* an element of the valid-source set of the target and operation.
C1_EligibleOnlyIfMember ==
    (last.op = "dispatch" /\ (last.ran \/ last.outcome = "counted"))
        => Lower(last.extension) \in extensions_of(last.valid_source)

\* C2: a failed move or copy never aborts the batch: the failure is caught,
\* the file stays where it is, the counters are unchanged and the run goes on.
C2_RelocationFailureNeverAborts ==
    (last.op = "relocate" /\ last.outcome \in {"move_error", "copy_error"})
        => /\ pc # "crashed"
           /\ proc_status # 1
           /\ mcf = last.before
           /\ isfile(files, last.source)

\* C3: in-place mode relocates nothing: no move or copy is attempted and no
\* cleanup pass runs, for a directory source and for a single-file source.
C3_InPlaceRelocatesNothing ==
    in_place => (attempts = {} /\ calls.relocate = 0 /\ cleanups = <<>>)

\* C4: at the end of a run into another destination, every output the tool
\* produced lies in the mirrored destination directory, is gone from the
\* source tree, and is counted as transcoded and as moved.
C4_TranscodedOutputIsMoved ==
    (summary # <<>> /\ cfg.source = SrcRoot /\ cfg.dest = DstRoot)
        => LET done == {run \in tool_runs : run.rc = 0}
           IN /\ \A run \in done :
                    /\ isfile(files, Mirror(run.output))
                    /\ files[Mirror(run.output)] = "transcoded"
                    /\ ~isfile(files, run.output)
              /\ summary[1].transcoded = <<Cardinality(done)>>
              /\ summary[1].relocated[1].moved >= Cardinality(done)

\* C5: when the output path of a dispatched file already exists, the tool is
\* not invoked, the transcode counter and the existing file are unchanged,
\* and dispatching the same source again is skipped again and changes nothing.
C5_NeverOverwrites ==
    (last.op = "dispatch" /\ last.output_before # "absent")
        => /\ ~last.ran
           /\ tsa.total_count_transcode = last.before.total_count_transcode
           /\ files[NormPath(last.output)] = last.output_before
           /\ last.outcome \in {"skipped_existing", "existing_uncounted", "ineligible"}
           /\ last.outcome = "skipped_existing"
                => LET again == transcode_source_audio(tsa, files, dirs, dict_files_failed,
                                                       last.source, target, transcode,
                                                       FALSE, 0)
                   IN /\ again.outcome = "skipped_existing"
                      /\ again.runs = {}
                      /\ again.files = files
                      /\ again.tsa.total_count_transcode = tsa.total_count_transcode

C5_Witness ==
    /\ last.op = "dispatch" /\ last.outcome = "skipped_existing"
    /\ last.output_before = "source"

\* C6 as stated: a file is moved if and only if its extension is a valid
\* transcode source extension for the active target format.
C6_MovedIffValidSource ==
    (last.op = "relocate" /\ last.outcome # "mkdir_error")
        => (last.outcome \in {"moved", "move_error"}
              <=> last.extension \in extensions_of(dict_valid_source_get(OpEncode)[target]))

\* C6, amended: the engine calls shutil.move for a file if and only if the
\* file's extension is the active target format itself; it calls shutil.copy2
\* if and only if the extension is a companion type; any other file is
\* ignored, with no move, no copy and no change to any counter.
C6_MovedIffTargetFormat ==
    (last.op = "relocate" /\ last.outcome # "mkdir_error")
        => /\ last.outcome \in {"moved", "move_error"} <=> last.extension = target
           /\ last.outcome \in {"copied", "copy_error"}
                <=> InTuple(last.extension,
                            Tail(main_and_relevant_files_for_audio_get(target)))
           /\ last.outcome \in {"moved", "move_error", "copied", "copy_error", "ignored"}
           /\ last.outcome = "ignored"
                => /\ mcf = last.before
                   /\ \A a \in attempts : a.src # last.source
           /\ last.outcome = "moved" => ~isfile(files, last.source)
           /\ last.outcome = "copied" => isfile(files, last.source)
           /\ last.outcome \in {"moved", "copied"}
                => isfile(files, IF isdir(dirs, last.dstdir)
                                 THEN join(last.dstdir, basename(last.source))
                                 ELSE last.dstdir)

\* A source extension of the target format was ignored: the file is a valid
\* transcode source, yet it is not moved
C6_Witness ==
    /\ last.op = "relocate" /\ last.outcome = "ignored"
    /\ last.extension = aiff /\ target = flac
    /\ \E a \in ok_moves : TRUE
    /\ \E a \in ok_copies : TRUE

\* C7: when the tool exits with a non-zero code, the source is entered in the
\* ledger with the fixed hint, the transcode counter and elapsed time are not
\* increased, and the pass goes on with the next file.
C7_FailureRecorded ==
    (last.op = "dispatch" /\ last.outcome = "failed")
        => /\ last.source \in DOMAIN dict_files_failed
           /\ dict_files_failed[last.source] = Hint
           /\ tsa.total_count_transcode = last.before.total_count_transcode
           /\ tsa.total_time_ns_transcode = last.before.total_time_ns_transcode
           /\ proc_status # 1
           /\ pc \in {"transcode_walk", "relocate_walk", "file_relocate", "stats", "exit"}

\* A failed file with another file of the pass still to come
C7_Witness ==
    /\ last.op = "dispatch" /\ last.outcome = "failed"
    /\ pc = "transcode_walk" /\ todo # {}

\* The relative remainder of a walked directory under the source root
relative_remainder(dir_source) ==
    IF Len(dir_source) > Len(NormPath(cfg.source)) + 1
    THEN SubSeq(dir_source, Len(NormPath(cfg.source)) + 2, Len(dir_source))
    ELSE <<>>

\* C8: a file walked in root/a/b is relocated into destRoot/basename(root)/a/b,
\* with or without a trailing separator on the root (basename taken of the
\* root as given, or of the root without its trailing separator).
C8_DestinationMirrorsSource ==
    (last.op = "relocate" /\ last.outcome \in {"moved", "copied"} /\ dir_run)
        => NormPath(last.dstdir) \in
             {NormPath(join3(cfg.dest, basename(cfg.source),
                             relative_remainder(dirname(last.source)))),
              NormPath(join3(cfg.dest, basename(NormPath(cfg.source)),
                             relative_remainder(dirname(last.source))))}

C10_HeadFailureAborts ==
    refused # {}
        => /\ pc \in {"crashed", "stats", "exit"}
           /\ proc_status # 0
           /\ calls.dispatch = 0 /\ tool_runs = {}
           /\ calls.relocate = 0 /\ attempts = {}
           /\ cleanups = <<>>
           /\ files = InitFiles(cfg) /\ dirs = InitDirs(cfg)

\* A fatal precondition of the run fails: unsupported platform, no or
\* conflicting options, missing source, head directory that cannot be had
fatal_precondition ==
    \/ ~is_supported_platform(cfg.system)
    \/ (cfg.encode_to = None /\ cfg.decode_from = None /\ cfg.move_format = None)
    \/ (cfg.move_format # None /\ cfg.percentage)
    \/ ~exists(InitFiles(cfg), InitDirs(cfg), cfg.source)
    \/ refused # {}

\* C11: a finished run has exit status 1 if a fatal precondition failed and
\* 0 otherwise, whatever happened to single files.
C11_ExitCode ==
    proc_status # -1 => proc_status = (IF fatal_precondition THEN 1 ELSE 0)

\* C12: the percentages printed are non-decreasing; the line printed last is
\* the completion line exactly when the transcoded count equals the eligible
\* count, and otherwise gives floor(100 * transcoded / eligible).
C12_ProgressMonotone ==
    /\ \A i \in 1..(Len(reports) - 1) : reports[i].percent <= reports[i + 1].percent
    /\ reports # <<>>
         => /\ reports[Len(reports)].all
                 <=> tsa.total_count_transcode = tsa.total_count_source
            /\ ~reports[Len(reports)].all
                 => reports[Len(reports)].percent
                      = (100 * tsa.total_count_transcode) \div tsa.total_count_source

\* The counting pass is under way or has just finished
counting == cfg.percentage /\ pc \in {"count_walk", "dir_begin"}

\* The files of the source tree a counting pass has to count: those with a
\* valid source extension whose output is not there
eligible_files ==
    {f \in cfg.tree :
        /\ PyIn(Lower(split_root_extension(f)[2]),
                dict_valid_source_get(transcode)[Lower(target)])
        /\ ~exists(InitFiles(cfg), InitDirs(cfg),
                   split_root_extension(f)[1] \o <<EXTSEP>>
                   \o dict_valid_target_get(transcode)[Lower(target)])}

\* What a counting pass leaves alone in any case
counting_changes_nothing_else ==
    /\ pc \in {"count_begin", "count_walk"} => cfg.percentage
    /\ counting
         => /\ tool_runs = {} /\ reports = <<>> /\ attempts = {} /\ cleanups = <<>>
            /\ tsa.total_count_transcode = 0 /\ tsa.total_time_ns_transcode = 0
            /\ mcf = [total_count |-> 0, total_count_moved |-> 0, total_size |-> 0]
            /\ total_time_ns_relocate = 0
            /\ dict_files_failed = <<>>
            /\ files = InitFiles(cfg)
    /\ (counting /\ pc = "dir_begin")
         => tsa.total_count_source = Cardinality(eligible_files)

C14_SingleFileRun ==
    file_run
      => /\ pc \notin {"count_begin", "count_walk", "dir_begin", "transcode_walk",
                       "relocate_walk", "cleanup"}
         /\ cleanups = <<>>
         /\ (pc \in {"exit", "crashed"} /\ ~fatal_precondition)
              => /\ pc = "exit" /\ summary # <<>>
                 /\ calls.dispatch = (IF transcode # None THEN 1 ELSE 0)
                 /\ calls.relocate = 1

\* The directories of the destination tree before the cleanup ran
dirs_before_cleanup == dirs \cup cleanups[1]

C16_ToolAbsent ==
    ~cfg.tool_present
      => /\ tool_runs = {}
         /\ tsa.total_count_transcode = 0 /\ tsa.total_time_ns_transcode = 0
         /\ dict_files_failed = <<>>
         /\ reports = <<>>
         /\ \A f \in DOMAIN files : files[f] = "source"
         /\ last.op = "dispatch"
              => /\ (/\ ~last.gather
                     /\ PyIn(Lower(last.extension), last.valid_source)
                     /\ last.output_before = "absent")
                      <=> last.outcome = "no_tool"
                 /\ last.outcome = "no_tool" => ~isfile(files, last.output)
                 /\ ~last.ran
                 /\ tsa.total_count_transcode = last.before.total_count_transcode
                 /\ pc # "crashed"
                 /\ proc_status \in {-1, 0} /\ exit_code = 0
         /\ pc = "exit" => proc_status = 0
         /\ exit_code = 1 => refused # {}

\* A run without the tool that met an eligible file, went on to relocate a
\* file and ended with status 0
C16_Witness ==
    /\ ~cfg.tool_present
    /\ pc = "exit" /\ proc_status = 0
    /\ eligible_files # {}
    /\ calls.dispatch >= 1 /\ mcf.total_count >= 1
    /\ cleanups # <<>>

\* The registry entry <<tool, options>> of the run's platform, operation and
\* target format, looked up afresh
registry_entry == dict_transcode_tool_get(cfg.system, transcode)[Lower(target)]

\* C17: the argument vector of every tool invocation is the tool path of the
\* registry, the source path, the registry's fixed options in their order,
\* and the output path (source root and target extension) last.
C17_ArgvOrder ==
    \A r \in tool_runs :
        /\ Len(r.argv) = Len(registry_entry[2]) + 3
        /\ r.argv[1] = registry_entry[1]
        /\ r.argv[2] = r.source
        /\ NormPath(r.source) \in cfg.tree
        /\ SubSeq(r.argv, 3, Len(r.argv) - 1) = registry_entry[2]
        /\ r.argv[Len(r.argv)] = r.output
        /\ r.output = split_root_extension(r.source)[1] \o <<EXTSEP>>
                      \o dict_valid_target_get(transcode)[Lower(target)]

\* Two invocations of the Opus encoder, one of which failed
C17_Witness ==
    /\ transcode = OpEncode /\ Lower(target) = opus
    /\ Cardinality(tool_runs) = 2
    /\ \E r \in tool_runs : r.rc = 1

\* The place of a position of the coordinator in the order of the phases
phase_rank(p) ==
    CASE p = "main" -> 0
      [] p = "count_begin" -> 1
      [] p = "count_walk" -> 2
      [] p \in {"dir_begin", "file_begin"} -> 3
      [] p = "transcode_walk" -> 4
      [] p \in {"relocate_walk", "file_relocate"} -> 5
      [] p = "stats" -> 6
      [] OTHER -> 7

\* What the phases of a run over a directory have done at each position
phases_in_order ==
    dir_run
      => /\ pc \in {"count_begin", "count_walk"} => (cfg.percentage /\ tool_runs = {})
         /\ transcode = None => calls.dispatch = 0
         /\ phase_rank(pc) <= 4
              => (attempts = {} /\ calls.relocate = 0 /\ cleanups = <<>>)
         /\ (attempts # {} \/ calls.relocate > 0 \/ cleanups # <<>>)
              => calls.dispatch = (IF transcode = None THEN 0
                                   ELSE IF cfg.percentage THEN 2 * Cardinality(cfg.tree)
                                   ELSE Cardinality(cfg.tree))
         /\ pc = "relocate_walk" => cleanups = <<>>
         /\ cleanups # <<>>
              => /\ todo = {}
                 /\ calls.relocate = Cardinality(cfg.tree) + tsa.total_count_transcode

\* C18: the phases come in the order counting (percentage only), transcoding
\* (encode or decode only), relocation, cleanup, end: nothing is moved,
\* copied or removed before the dispatcher was called for the last file of
\* the transcoding walk, and the cleanup runs after the last relocation.
C18_PhaseOrder ==
    /\ []phases_in_order
    /\ [][phase_rank(pc') >= phase_rank(pc)]_vars

\* A run that counted, transcoded, relocated and cleaned up
C18_Witness ==
    /\ dir_run /\ cfg.percentage
    /\ tool_runs # {} /\ ok_moves # {} /\ ok_copies # {}
    /\ cleanups # <<>>

\* The resolution tuple kept in the function attributes st
cached_tuple(st) ==
    <<st.extension_prev, st.target_prev, st.is_valid_source_prev,
      st.does_transcode_tool_exist_prev, st.transcode_tool_prev, st.options_prev>>

\* The same tuple for extension ext, looked up afresh in the registry of the
\* run's platform, operation and target format
fresh_tuple(ext) ==
    <<ext,
      dict_valid_target_get(transcode)[Lower(target)],
      PyIn(Lower(ext), dict_valid_source_get(transcode)[Lower(target)]),
      cfg.tool_present,
      registry_entry[1], registry_entry[2]>>

moved_extensions == {opus, flac}

\* C20: a file of the source tree that is copied or passed over stays where
\* it was, with its content; a file is gone from the source tree only if it
\* was classified for move and moved.
C20_OnlyMovesLeaveSource ==
    /\ \A f \in cfg.tree :
          /\ f \in DOMAIN files => files[f] = "source"
          /\ f \notin DOMAIN files
               => /\ split_root_extension(f)[2] \in moved_extensions
                  /\ \E a \in ok_moves : NormPath(a.src) = f
    /\ \A a \in attempts :
          a.how = "copy"
            => /\ split_root_extension(a.src)[2] \notin moved_extensions
               /\ NormPath(a.src) \in DOMAIN files
    /\ (last.op = "relocate" /\ last.outcome # "moved")
          => NormPath(last.source) \in DOMAIN files
    /\ \A f \in DOMAIN files \ cfg.tree :
          (files[f] = "transcoded" /\ f \notin DOMAIN InitFiles(cfg)
           /\ split_root_extension(f)[2] \notin moved_extensions)
            => dirname(f) \in {dirname(g) : g \in cfg.tree}

\* A finished run that moved one file, copied a companion and passed over a
\* source file, all three of the source tree or made in it
C20_Witness ==
    /\ pc = "exit"
    /\ ok_moves # {} /\ ok_copies # {}
    /\ \E f \in cfg.tree :
          /\ ~is_relevant(split_root_extension(f)[2], target)
          /\ f \in DOMAIN files
    /\ \A a \in ok_copies : NormPath(a.src) \in cfg.tree

\* Counter and ledger account for every tool invocation
invocations_accounted ==
    /\ tsa.total_count_transcode = Cardinality({r \in tool_runs : r.rc = 0})
    /\ DOMAIN dict_files_failed = {r.source : r \in {q \in tool_runs : q.rc # 0}}
    /\ \A r \in tool_runs : \A q \in tool_runs : r.source = q.source => r = q
    /\ \A k \in DOMAIN dict_files_failed : dict_files_failed[k] = Hint

\* C21: the transcode counter is the number of tool invocations that exited
\* with code 0, the ledger holds exactly the sources whose invocation exited
\* with another code, no source is invoked twice, and no step of the run
\* takes an entry out of the ledger or changes one.
C21_CounterAndLedger ==
    /\ []invocations_accounted
    /\ [][\A k \in DOMAIN dict_files_failed :
              k \in DOMAIN dict_files_failed' /\ dict_files_failed'[k] = dict_files_failed[k]]_vars

\* A finished run with one successful and one failed invocation
C21_Witness ==
    /\ pc = "exit"
    /\ tsa.total_count_transcode = 1
    /\ Cardinality(DOMAIN dict_files_failed) = 1
    /\ Cardinality(tool_runs) = 2

\* C23: for an elapsed time of T >= 60 whole seconds the summary gives hours
\* h, minutes m < 60 and seconds s < 60 with 3600 h + 60 m + s = T.
C23_HmsFaithful ==
    (summary # <<>> /\ tsa.total_time_ns_transcode >= 60)
      => /\ summary[1].time.minutes < 60
         /\ summary[1].time.seconds < 60
         /\ 3600 * summary[1].time.hours + 60 * summary[1].time.minutes
              + summary[1].time.seconds = tsa.total_time_ns_transcode

\* C22: for every target format and both operations the valid source
\* extensions are not empty and do not hold the output extension of the
\* format, and encode and decode tables have the same keys; the tables a
\* call returned are these.
C22_RegistryWellFormed ==
    /\ \A op \in Operations :
          /\ DOMAIN dict_valid_source_get(op) = Formats
          /\ DOMAIN dict_valid_target_get(op) = Formats
          /\ \A sys \in Platforms : DOMAIN dict_transcode_tool_get(sys, op) = Formats
          /\ \A f \in Formats :
                /\ dict_valid_source_get(op)[f].val # <<>>
                /\ \E e \in SourceExtensions : e # <<>> /\ PyIn(e, dict_valid_source_get(op)[f])
                /\ ~PyIn(dict_valid_target_get(op)[f], dict_valid_source_get(op)[f])
    /\ last.op = "resolve"
          => /\ DOMAIN last.tables.valid_source = Formats
             /\ DOMAIN last.tables.tool = Formats
             /\ last.tables.valid_source[target].val # <<>>
             /\ ~PyIn(last.tables.valid_target[target], last.tables.valid_source[target])
             /\ last.kept.target_prev = last.tables.valid_target[target]
             /\ (last.kept.is_valid_source_prev /\ last.extension # <<>>)
                  => last.extension # last.kept.target_prev

\* A decode lookup that found its source extension valid
C22_Witness ==
    /\ last.op = "resolve" /\ last.operation = OpDecode
    /\ last.extension = flac /\ target = flac
    /\ last.kept.is_valid_source_prev

strictly_below(d, top) ==
    /\ Len(d) > Len(NormPath(top)) + 1
    /\ SubSeq(d, 1, Len(NormPath(top)) + 1) = NormPath(top) \o <<SEP>>

\* C25: the cleanup removes directories strictly below the destination root
\* only: not the root itself, not a directory above or beside it.
C25_CleanupStaysBelowRoot ==
    cleanups # <<>>
      => \A d \in cleanups[1] : strictly_below(d, dir_destination_original)

\* The transcoding walk of a percentage run with the tool installed is
\* over, files were counted, and every tool invocation exited with code 0
percentage_pass_over ==
    /\ dir_run /\ cfg.percentage /\ cfg.tool_present
    /\ tsa.total_count_source > 0
    /\ phase_rank(pc) >= 5
    /\ \A r \in tool_runs : r.rc = 0

\* The last progress line says that all files in the queue are transcoded
completion_reported == reports # <<>> /\ reports[Len(reports)].all

\* C26: a percentage run in which every tool invocation exits with code 0
\* has, by the end of its transcoding walk, reported completion, with the
\* transcoded count equal to the count of the counting pass (after the walk
\* neither counter changes any more, so a run that has not reported it by
\* then never does).
C26_EventuallyComplete ==
    percentage_pass_over
      => /\ completion_reported
         /\ tsa.total_count_transcode = tsa.total_count_source

\* C27: in a percentage run the transcoded counter never exceeds the count
\* of the counting pass, every tool invocation is for a file that pass
\* counted, and no progress line shows more than 100 per cent.
C27_TranscodedAtMostEligible ==
    (dir_run /\ cfg.percentage)
      => /\ tsa.total_count_transcode <= tsa.total_count_source
         /\ tool_runs # {} => tsa.total_count_source = Cardinality(eligible_files)
         /\ \A r \in tool_runs : NormPath(r.source) \in eligible_files
         /\ \A i \in 1..Len(reports) :
               /\ reports[i].percent <= 100
               /\ reports[i].all <=> reports[i].percent = 100

\* In the transcoding walk of a percentage run, one of two counted files is
\* transcoded
C27_Witness ==
    /\ dir_run /\ cfg.percentage /\ pc = "transcode_walk"
    /\ tsa.total_count_source = 2 /\ tsa.total_count_transcode = 1
    /\ todo # {}

\* The files that were in the destination before the run
destination_files_before == DOMAIN InitFiles(cfg) \ cfg.tree

\* C28: when the directory a file is moved or copied into already held a
\* file of that name before the run, that file is still there with its
\* content after the engine call.
C28_RelocationNeverOverwrites ==
    \A a \in attempts :
        (/\ NormPath(a.dst) \in InitDirs(cfg)
         /\ NormPath(join(a.dst, basename(a.src))) \in destination_files_before)
          => /\ NormPath(join(a.dst, basename(a.src))) \in DOMAIN files
             /\ files[NormPath(join(a.dst, basename(a.src)))] = "old"
====
